---- MODULE Spec2Model ----
(***************************************************************************)
(* Mapping lineage graph engine.                                           *)
(*                                                                         *)
(*   - InfaLineageGenerator (XMLify/excel_export/new_style.py): mapping    *)
(*     lookup, graph build, level assignment, parallel-group               *)
(*     partitioning, enriched connector records.                           *)
(*   - FixedInformaticaLineageFramework (XMLify/fixed_lineage_maker.py):   *)
(*     backward field-lineage trace.                                       *)
(*                                                                         *)
(* A graph node is the qualified name f"{acronym(type)}{name}" of an       *)
(* instance; the model writes it as a number 1..MaxNodes.  A networkx      *)
(* DiGraph keeps its nodes and its adjacency in insertion order, so the    *)
(* graph is a pair of sequences without repetition.                        *)
(***************************************************************************)
EXTENDS Integers, Sequences, FiniteSets, TLC

MaxNodes == 4
MaxEdges == 4
MaxUndeclared == 1
MaxMappingNodes == 3
MaxFieldConnectors == 3
MaxConnections == 3
MaxDepth == 2
MaxGroupNodes == 3
MaxGroupEdges == 2
MaxLevel == 1
MaxFieldNodes == 4
MaxLineageConnectors == 3

VARIABLES
    workflow_data,         \* the folders of the workflow, each a list of mappings
    mapping_name,          \* InfaLineageGenerator.mapping_name
    mapping_exists,        \* result of check_if_mapping_exists
    mapping_number,        \*   (mapping_number is -1 where the code has None)
    connectors_data,       \* the enriched records of process_mapping
    instances,             \* InfaLineageGenerator.instances (declared, in order)
    connectors,            \* InfaLineageGenerator.connectors (in order)
    mapping_lineage_graph, \* the DiGraph, NoGraph before it is built
    transformation_orders, \* node -> exported level
    parallel_groups,       \* node -> parallel group id
    prev_orders,           \* result of the previous analysis of the same input
    prev_groups,
    second_run,            \* TRUE once the same input is analysed again
    pc,
    trace_instances,       \* FixedInformaticaLineageFramework.instances
    transformations,       \* FixedInformaticaLineageFramework.transformations
    connections,           \* FixedInformaticaLineageFramework.connections
    target_instance,       \* arguments of trace_lineage
    target_field,
    max_depth,
    queue,                 \* locals of trace_lineage
    visited,
    lineage_records,
    expansions,            \* number of dequeued items that passed the visited test
    tpc,
    ipg_subgraph,          \* arguments subgraph and levels of one call of
    ipg_levels,            \*   _identify_parallel_groups
    ipg_parallel_groups,   \* the dict it returns: group counter -> nodes
    gpc,
    lineage_connectors,    \* PowerCenterLineage: the CONNECTOR list of the mapping
    graph,                 \* the DiGraph of _build_lineage_graph
    target_node,           \* argument of _trace_lineage
    lineage,               \* the list it returns
    lpc

workflowVars == <<workflow_data, mapping_name, mapping_exists, mapping_number>>

orderVars == <<workflowVars, connectors_data, instances, connectors,
               mapping_lineage_graph, transformation_orders,
               parallel_groups, prev_orders, prev_groups, second_run, pc>>

traceVars == <<trace_instances, transformations, connections, target_instance,
               target_field, max_depth, queue, visited, lineage_records,
               expansions, tpc>>

groupVars == <<ipg_subgraph, ipg_levels, ipg_parallel_groups, gpc>>

lineageVars == <<lineage_connectors, graph, target_node, lineage, lpc>>

callVars == <<groupVars, lineageVars>>

vars == <<orderVars, traceVars, callVars>>

-----------------------------------------------------------------------------
(* Sequences used as Python lists / insertion-ordered dict keys *)

Range(s) == {s[i] : i \in DOMAIN s}

InSeq(x, s) == \E i \in DOMAIN s : s[i] = x

AddUnique(s, x) == IF InSeq(x, s) THEN s ELSE Append(s, x)

EmptyMap == [x \in {} |-> 0]

\* dict.update(e): the entries of e win
Update(d, e) == e @@ d

RECURSIVE Orders(_)
\* every order in which a Python set S can be iterated
Orders(S) ==
    IF S = {} THEN {<<>>}
    ELSE UNION {{<<x>> \o r : r \in Orders(S \ {x})} : x \in S}

-----------------------------------------------------------------------------
(* networkx.DiGraph *)

NoGraph == [nodes |-> <<>>, edges |-> <<>>]

add_node(G, n) == [G EXCEPT !.nodes = AddUnique(@, n)]

\* add_edge of a multigraph: a parallel edge for every call
add_edge_multigraph(G, u, v) ==
    [nodes |-> AddUnique(AddUnique(G.nodes, u), v),
     edges |-> Append(G.edges, <<u, v>>)]

add_edge(G, u, v) ==
    [nodes |-> AddUnique(AddUnique(G.nodes, u), v),
     edges |-> AddUnique(G.edges, <<u, v>>)]

successors(G, n) ==
    LET es == SelectSeq(G.edges, LAMBDA e : e[1] = n)
    IN  [i \in 1..Len(es) |-> es[i][2]]

predecessors(G, n) ==
    LET es == SelectSeq(G.edges, LAMBDA e : e[2] = n)
    IN  [i \in 1..Len(es) |-> es[i][1]]

in_degree(G, n) == Len(predecessors(G, n))

out_degree(G, n) == Len(successors(G, n))

has_edge(G, u, v) == InSeq(<<u, v>>, G.edges)

RECURSIVE ReachedFrom(_, _, _)
\* S grown by the nodes reachable along the edges E from its part `frontier`
ReachedFrom(E, S, frontier) ==
    LET found == {e[2] : e \in {f \in E : f[1] \in frontier}} \ S
    IN  IF found = {} THEN S ELSE ReachedFrom(E, S \cup found, found)

\* the nodes reachable from the set S along directed edges, S included
Descendants(G, S) == ReachedFrom(Range(G.edges), S, S)

RECURSIVE JoinedTo(_, _, _)
\* S grown by the nodes that the edges E, taken in either direction, join to
\* its part `frontier`
JoinedTo(E, S, frontier) ==
    LET found == ({e[2] : e \in {f \in E : f[1] \in frontier}}
                     \cup {e[1] : e \in {f \in E : f[2] \in frontier}}) \ S
    IN  IF found = {} THEN S ELSE JoinedTo(E, S \cup found, found)

\* the nodes joined to S by edges taken in either direction
Connected(G, S) == JoinedTo(Range(G.edges), S, S)

\* has_path asked of the undirected graph
has_path_undirected(G, a, b) == b \in Connected(G, {a})

\* nx.has_path: a node has a path (of length 0) to itself
has_path(G, a, b) == b \in Descendants(G, {a})

RECURSIVE ComponentsFrom(_, _, _)
ComponentsFrom(G, i, seen) ==
    IF i > Len(G.nodes) THEN <<>>
    ELSE IF G.nodes[i] \in seen THEN ComponentsFrom(G, i + 1, seen)
    ELSE LET c == Connected(G, {G.nodes[i]})
         IN  <<c>> \o ComponentsFrom(G, i + 1, seen \cup c)

\* nx.weakly_connected_components: one set per component, in the order in
\* which the graph's node order first meets each component
weakly_connected_components(G) == ComponentsFrom(G, 1, {})

\* G.subgraph(component): the view keeps the graph's node and edge order
subgraph(G, component) ==
    [nodes |-> SelectSeq(G.nodes, LAMBDA n : n \in component),
     edges |-> SelectSeq(G.edges, LAMBDA e : e[1] \in component /\ e[2] \in component)]

\* nx.strongly_connected_components, as a set of node sets
strongly_connected_components(G) ==
    {{m \in Range(G.nodes) : has_path(G, n, m) /\ has_path(G, m, n)} : n \in Range(G.nodes)}

\* G.remove_edge(u, v)
remove_edge(G, u, v) == [G EXCEPT !.edges = SelectSeq(@, LAMBDA e : e # <<u, v>>)]

-----------------------------------------------------------------------------
(* nx.topological_sort: Kahn's algorithm by generations.  It raises         *)
(* NetworkXUnfeasible when nodes with a positive in-degree are left over,   *)
(* i.e. when the graph has a cycle (a self-loop is a cycle).                *)

RECURSIVE ChildrenOf(_, _)
ChildrenOf(G, gen) ==
    IF gen = <<>> THEN <<>>
    ELSE successors(G, Head(gen)) \o ChildrenOf(G, Tail(gen))

RECURSIVE RelaxChildren(_, _, _)
RelaxChildren(children, indeg, zero) ==
    IF children = <<>> THEN [indeg |-> indeg, zero |-> zero]
    ELSE LET c == Head(children)
             d == indeg[c] - 1
         IN  RelaxChildren(Tail(children), [indeg EXCEPT ![c] = d],
                           IF d = 0 THEN Append(zero, c) ELSE zero)

RECURSIVE Generations(_, _, _, _)
Generations(G, gen, indeg, acc) ==
    IF gen = <<>> THEN [order |-> acc, indeg |-> indeg]
    ELSE LET r == RelaxChildren(ChildrenOf(G, gen), indeg, <<>>)
         IN  Generations(G, r.zero, r.indeg, acc \o gen)

\* the graph's node order taken for a topological order
topological_sort_insertion_order(G) == [raised |-> "none", order |-> G.nodes]

topological_sort(G) ==
    LET indeg0 == [n \in Range(G.nodes) |-> in_degree(G, n)]
        zero0  == SelectSeq(G.nodes, LAMBDA n : indeg0[n] = 0)
        r      == Generations(G, zero0, indeg0, <<>>)
    IN  IF \E n \in Range(G.nodes) : r.indeg[n] > 0
        THEN [raised |-> "NetworkXUnfeasible", order |-> <<>>]
        ELSE [raised |-> "none", order |-> r.order]

-----------------------------------------------------------------------------
(* InfaLineageGenerator: level assignment *)

MaxOf(S) == CHOOSE x \in S : \A y \in S : y <= x

MinOf(S) == CHOOSE x \in S : \A y \in S : x <= y

\* the level of one node of the walk of _calculate_longest_path_levels, with
\* the shortest predecessor path taken instead of the longest
node_level_shortest(G, sources, levels, node) ==
    IF InSeq(node, sources) THEN 0
    ELSE LET preds == predecessors(G, node)
             predecessor_levels ==
                 [i \in DOMAIN preds |->
                     IF preds[i] \in DOMAIN levels THEN levels[preds[i]] ELSE 0]
         IN  IF preds # <<>> THEN MinOf(Range(predecessor_levels)) + 1 ELSE 0

\* the level of the last predecessor taken instead of the maximum
node_level_last_predecessor(G, sources, levels, node) ==
    IF InSeq(node, sources) THEN 0
    ELSE LET preds == predecessors(G, node)
             last == preds[Len(preds)]
         IN  IF preds # <<>>
             THEN (IF last \in DOMAIN levels THEN levels[last] ELSE 0) + 1
             ELSE 0

\* body of the loop of _calculate_longest_path_levels
node_level(G, sources, levels, node) ==
    IF InSeq(node, sources) THEN 0
    ELSE LET preds == predecessors(G, node)
             predecessor_levels ==
                 [i \in DOMAIN preds |->
                     IF preds[i] \in DOMAIN levels THEN levels[preds[i]] ELSE 0]
         IN  IF preds # <<>> THEN MaxOf(Range(predecessor_levels)) + 1 ELSE 0

RECURSIVE WalkLevels(_, _, _, _)
WalkLevels(G, sources, order, levels) ==
    IF order = <<>> THEN levels
    ELSE LET node == Head(order)
         IN  WalkLevels(G, sources, Tail(order),
                        Update(levels, node :> node_level(G, sources, levels, node)))

\* _calculate_longest_path_levels.  The except clause names nx.NetworkXError;
\* NetworkXUnfeasible is not a subclass of it (both derive from
\* NetworkXException), so a cycle leaves this function as an exception and
\* _handle_cyclic_graph is not entered.
calculate_longest_path_levels(G, sources) ==
    LET t == topological_sort(G)
    IN  IF t.raised # "none"
        THEN [raised |-> TRUE, order |-> <<>>, levels |-> EmptyMap]
        ELSE [raised |-> FALSE, order |-> t.order,
              levels |-> WalkLevels(G, sources, t.order, EmptyMap)]

\* the pairs (max_out_node, min_in_node) that _handle_cyclic_graph can pick for
\* one strongly-connected component.  max() and min() return the first best
\* node in the iteration order of the set scc, the same order for both: x is
\* the first node of maximal out-degree and y the first node of minimal
\* in-degree, which no order allows when x # y and each is a best node of
\* the other kind too.
break_candidates(temp_graph, scc) ==
    LET scc_subgraph == subgraph(temp_graph, scc)
        max_out == MaxOf({out_degree(scc_subgraph, n) : n \in scc})
        min_in  == MinOf({in_degree(scc_subgraph, n) : n \in scc})
        best_out == {n \in scc : out_degree(scc_subgraph, n) = max_out}
        best_in  == {n \in scc : in_degree(scc_subgraph, n) = min_in}
    IN  {p \in best_out \X best_in :
            ~(p[1] # p[2] /\ p[2] \in best_out /\ p[1] \in best_in)}

RECURSIVE BreakCycles(_, _)
\* the loop `for scc in sccs` of _handle_cyclic_graph: one pass, at most one
\* edge removed per strongly-connected component of more than one node
BreakCycles(temp_graph, sccs) ==
    IF sccs = {} THEN {temp_graph}
    ELSE LET scc == CHOOSE c \in sccs : TRUE
             after == IF Cardinality(scc) > 1
                      THEN {IF has_edge(temp_graph, p[1], p[2])
                            THEN remove_edge(temp_graph, p[1], p[2])
                            ELSE temp_graph
                            : p \in break_candidates(temp_graph, scc)}
                      ELSE {temp_graph}
         IN  UNION {BreakCycles(g, sccs \ {scc}) : g \in after}

\* temp_graph of _handle_cyclic_graph when its loop has ended
working_graphs(G) == BreakCycles(G, strongly_connected_components(G))

\* _handle_cyclic_graph: the orders it can return.  The bare except catches
\* the NetworkXUnfeasible of the second topological sort.
handle_cyclic_graph(G, sources) ==
    {LET t == topological_sort(temp_graph)
     IN  IF t.raised = "none" THEN t.order ELSE G.nodes
     : temp_graph \in working_graphs(G)}

\* sources of _calculate_complex_order: the in-degree-0 nodes, or the nodes
\* of minimum in-degree when there are none
component_sources(G) ==
    LET zero == SelectSeq(G.nodes, LAMBDA n : in_degree(G, n) = 0)
        min_in_degree == MinOf({in_degree(G, n) : n \in Range(G.nodes)})
    IN  IF zero # <<>> THEN zero
        ELSE SelectSeq(G.nodes, LAMBDA n : in_degree(G, n) = min_in_degree)

RECURSIVE RelaxSuccessors(_, _, _)
\* the for loop over subgraph.successors(current) of the fallback
RelaxSuccessors(succs, current_level, st) ==
    IF succs = <<>> THEN st
    ELSE LET successor == Head(succs)
         IN  RelaxSuccessors(Tail(succs), current_level,
               IF successor \notin st.visited
               THEN [levels  |-> Update(st.levels, successor :> (current_level + 1)),
                     queue   |-> Append(st.queue, successor),
                     visited |-> st.visited \cup {successor}]
               ELSE [st EXCEPT !.levels[successor] =
                         IF @ >= current_level + 1 THEN @ ELSE current_level + 1])

RECURSIVE FallbackLoop(_, _)
\* the while loop of the fallback of _calculate_complex_order
FallbackLoop(G, st) ==
    IF st.queue = <<>> THEN st.levels
    ELSE LET current == Head(st.queue)
             current_level == st.levels[current]
         IN  FallbackLoop(G, RelaxSuccessors(successors(G, current), current_level,
                                             [st EXCEPT !.queue = Tail(@)]))

fallback_levels(G, sources) ==
    FallbackLoop(G, [levels  |-> [n \in Range(sources) |-> 0],
                     queue   |-> sources,
                     visited |-> Range(sources)])

-----------------------------------------------------------------------------
(* InfaLineageGenerator._identify_parallel_groups *)

RECURSIVE GrowGroup_undirected(_, _, _)
\* the pass over remaining_nodes with the path test asked of the undirected
\* graph
GrowGroup_undirected(G, ord, current_group) ==
    IF ord = <<>> THEN current_group
    ELSE LET node == Head(ord)
             can_add == \A group_node \in current_group :
                           ~has_path_undirected(G, node, group_node)
         IN  GrowGroup_undirected(G, Tail(ord),
                                  IF can_add THEN current_group \cup {node}
                                  ELSE current_group)

\* the pass over remaining_nodes that keeps its first node only
GrowGroup_first_node_only(G, ord, current_group) == {Head(ord)}

RECURSIVE GrowGroup(_, _, _)
\* one pass of `for node in remaining_nodes`, the set being iterated in order ord
GrowGroup(G, ord, current_group) ==
    IF ord = <<>> THEN current_group
    ELSE LET node == Head(ord)
             can_add == \A group_node \in current_group :
                           ~(has_path(G, node, group_node) \/ has_path(G, group_node, node))
         IN  GrowGroup(G, Tail(ord),
                       IF can_add THEN current_group \cup {node} ELSE current_group)

RECURSIVE GroupsOfLevel(_, _)
\* the while loop over remaining_nodes: every sequence of groups that some
\* iteration order of the set yields.  The first node of a pass always joins,
\* so current_group is never empty and the else branch is not taken.
GroupsOfLevel(G, remaining_nodes) ==
    IF remaining_nodes = {} THEN {<<>>}
    ELSE UNION {LET current_group == GrowGroup(G, ord, {})
                IN  {<<current_group>> \o rest :
                        rest \in GroupsOfLevel(G, remaining_nodes \ current_group)}
                : ord \in Orders(remaining_nodes)}

RECURSIVE LevelKeys(_, _)
\* keys of level_nodes, in the order in which levels.items() first shows them
LevelKeys(order, levels) ==
    IF order = <<>> THEN <<>>
    ELSE LET rest == LevelKeys(Tail(order), levels)
             l == levels[Head(order)]
         IN  <<l>> \o SelectSeq(rest, LAMBDA k : k # l)

RECURSIVE GroupLevels(_, _, _, _)
GroupLevels(G, keys, order, levels) ==
    IF keys = <<>> THEN {<<>>}
    ELSE LET nodes == SelectSeq(order, LAMBDA n : levels[n] = Head(keys))
             here  == IF Len(nodes) = 1 THEN {<<Range(nodes)>>}
                      ELSE GroupsOfLevel(G, Range(nodes))
         IN  {h \o r : h \in here, r \in GroupLevels(G, Tail(keys), order, levels)}

\* the possible values of the dict group_counter -> nodes, as sequences whose
\* index i holds the group of counter i - 1
identify_parallel_groups(G, order, levels) ==
    GroupLevels(G, LevelKeys(order, levels), order, levels)

-----------------------------------------------------------------------------
(* InfaLineageGenerator._calculate_complex_order and                        *)
(* _calculate_transformation_order.  A result is the pair of dicts          *)
(* (orders, parallel_groups); the operators give the set of results that    *)
(* the iteration orders of the partitioner's sets can produce.              *)

\* the component index left out of the group id
group_name_without_component(component_idx, level, group_id) ==
    <<"comp", "level", level, "group", group_id>>

\* f"comp_{component_idx}_level_{level}_group_{group_id}"
group_name(component_idx, level, group_id) ==
    <<"comp", component_idx, "level", level, "group", group_id>>

\* f"comp_{component_idx}_level_{level}"
fallback_group_name(component_idx, level) == <<"comp", component_idx, "level", level>>

\* f"fallback_{i}", the group id written by the sequential-numbering handler
sequential_group_name(i) == <<"fallback", i>>

\* f"isolated_{component_idx}"
isolated_group_name(component_idx) == <<"isolated", component_idx>>

\* the index, counted from 0, of the first group that holds the node
group_of(level_groups, node) ==
    (CHOOSE i \in DOMAIN level_groups :
        /\ node \in level_groups[i]
        /\ \A j \in DOMAIN level_groups : node \in level_groups[j] => i <= j) - 1

\* orders[node] = level + 1 without the conversion to 1-based
exported_level_zero_based(level) == level

\* orders[node] = level + 1  (convert to 1-based)
exported_level(level) == level + 1

calculate_complex_order(G, component_idx) ==
    LET sources == component_sources(G)
        lp == calculate_longest_path_levels(G, sources)
    IN  IF ~lp.raised
        THEN {[orders |-> [n \in DOMAIN lp.levels |-> exported_level(lp.levels[n])],
               parallel_groups |->
                   [n \in DOMAIN lp.levels |->
                       group_name(component_idx, lp.levels[n], group_of(level_groups, n))]]
              : level_groups \in identify_parallel_groups(G, lp.order, lp.levels)}
        ELSE LET levels == fallback_levels(G, sources)
             IN  {[orders |-> [n \in DOMAIN levels |-> exported_level(levels[n])],
                   parallel_groups |->
                       [n \in DOMAIN levels |->
                           fallback_group_name(component_idx, levels[n])]]}

RECURSIVE OrderComponents(_, _, _)
\* the loop over enumerate(connected_components)
OrderComponents(G, connected_components, i) ==
    IF i > Len(connected_components)
    THEN {[orders |-> EmptyMap, parallel_groups |-> EmptyMap]}
    ELSE LET component == connected_components[i]
             component_idx == i - 1
             here == IF Cardinality(component) = 1
                     THEN LET node == CHOOSE n \in component : TRUE
                          IN  {[orders |-> (node :> 0),
                                parallel_groups |->
                                    (node :> isolated_group_name(component_idx))]}
                     ELSE calculate_complex_order(subgraph(G, component), component_idx)
         IN  {[orders |-> Update(r.orders, h.orders),
               parallel_groups |-> Update(r.parallel_groups, h.parallel_groups)]
              : h \in here, r \in OrderComponents(G, connected_components, i + 1)}

\* No step of the try block raises on a DiGraph, so the sequential-numbering
\* handler is not entered; transformation_logic_cache is still empty when
\* main() calls this method, so no node is added as "unconnected".
calculate_transformation_order(G) ==
    OrderComponents(G, weakly_connected_components(G), 1)

RECURSIVE AddInstances(_, _)
AddInstances(G, insts) ==
    IF insts = <<>> THEN G
    ELSE AddInstances(add_node(G, Head(insts)), Tail(insts))

RECURSIVE AddConnectors(_, _)
AddConnectors(G, conns) ==
    IF conns = <<>> THEN G
    ELSE AddConnectors(add_edge(G, Head(conns).from_instance, Head(conns).to_instance),
                       Tail(conns))

build_graph(insts, conns) == AddConnectors(AddInstances(NoGraph, insts), conns)

-----------------------------------------------------------------------------
(* InfaLineageGenerator: mapping lookup and enriched records *)

RECURSIVE extract_mappings(_)
\* _extract_mappings: the mappings of every folder, in order
extract_mappings(folders) ==
    IF folders = <<>> THEN <<>>
    ELSE Head(folders) \o extract_mappings(Tail(folders))

\* the last mapping of the name taken instead of the first
check_if_mapping_exists_last(folders, name) ==
    LET mappings == extract_mappings(folders)
        hits == {i \in DOMAIN mappings : mappings[i].name = name}
    IN  IF hits = {} THEN [mapping_exists |-> FALSE, mapping_number |-> -1]
        ELSE [mapping_exists |-> TRUE, mapping_number |-> MaxOf(hits) - 1]

\* check_if_mapping_exists: the first mapping whose @NAME is the name
check_if_mapping_exists(folders, name) ==
    LET mappings == extract_mappings(folders)
        hits == {i \in DOMAIN mappings : mappings[i].name = name}
    IN  IF hits = {} THEN [mapping_exists |-> FALSE, mapping_number |-> -1]
        ELSE [mapping_exists |-> TRUE, mapping_number |-> MinOf(hits) - 1]

\* self.mapping_data
mapping_data_of(folders, number) == extract_mappings(folders)[number + 1]

\* the default of parallel_groups.get(to_node_name, "unknown")
unknown_group == <<"unknown">>

\* _process_connector_with_lineage.  The node name of the TO instance is
\* built as create_basic_lineage_graph builds it, so the lookups use the
\* graph's node; the logic string is not part of the model.
process_connector_with_lineage(connector, orders, groups) ==
    LET to_node_name == connector.to_instance
        trans_order == IF to_node_name \in DOMAIN orders THEN orders[to_node_name] ELSE 0
        parallel_group == IF to_node_name \in DOMAIN groups
                          THEN groups[to_node_name] ELSE unknown_group
        execution_level == IF trans_order > 0
                           THEN (IF trans_order - 1 > 0 THEN trans_order - 1 ELSE 0)
                           ELSE 0
    IN  [from_field    |-> connector.from_field,
         from_instance |-> connector.from_instance,
         to_field      |-> connector.to_field,
         to_instance   |-> connector.to_instance,
         transformation_order |-> trans_order,
         parallel_group  |-> parallel_group,
         execution_level |-> execution_level]

-----------------------------------------------------------------------------
(* FixedInformaticaLineageFramework.  A Python string is a sequence of      *)
(* tokens; `in`, startswith and replace work on contiguous runs of tokens.  *)

StartsWith(str, prefix) ==
    /\ Len(prefix) <= Len(str)
    /\ SubSeq(str, 1, Len(prefix)) = prefix

\* Python `needle in str`
Contains(str, needle) ==
    \E i \in 1..(Len(str) - Len(needle) + 1) :
        SubSeq(str, i, i + Len(needle) - 1) = needle

RECURSIVE Remove(_, _)
\* Python str.replace(old, "")
Remove(str, old) ==
    IF str = <<>> THEN <<>>
    ELSE IF StartsWith(str, old) THEN Remove(SubSeq(str, Len(old) + 1, Len(str)), old)
    ELSE <<Head(str)>> \o Remove(Tail(str), old)

RECURSIVE Reverse(_)
Reverse(s) == IF s = <<>> THEN <<>> ELSE Append(Reverse(Tail(s)), Head(s))

RECURSIVE Flatten(_)
Flatten(ss) == IF ss = <<>> THEN <<>> ELSE Head(ss) \o Flatten(Tail(ss))

\* self.sources: the names of the instances declared with @TYPE SOURCE
declared_sources(insts) ==
    {n \in DOMAIN insts : insts[n].TYPE = "SOURCE"}

\* self.targets
declared_targets(insts) ==
    {n \in DOMAIN insts : insts[n].TYPE = "TARGET"}

\* is_lineage_source with the name patterns left out
is_lineage_source_by_declaration(instance_name, insts, transforms, conns) ==
    instance_name \in declared_sources(insts)

is_lineage_source(instance_name, insts, transforms, conns) ==
    \/ instance_name \in declared_sources(insts)
    \/ StartsWith(instance_name, <<"SQ_">>)
    \/ Contains(instance_name, <<"SEQ_">>)
    \/ Contains(instance_name, <<"Sequence">>)
    \/ /\ instance_name \in DOMAIN insts
       /\ \/ Contains(insts[instance_name].TRANSFORMATION_TYPE, <<"Source">>)
          \/ Contains(insts[instance_name].TRANSFORMATION_TYPE, <<"Sequence">>)
    \/ /\ instance_name \in DOMAIN transforms
       /\ \/ transforms[instance_name].type \in {"Source Qualifier", "Sequence Generator"}
          \/ /\ transforms[instance_name].type = "Expression"
             /\ ~\E i \in DOMAIN conns : conns[i].to_instance = instance_name

\* get_transformation_logic, the parts of the " | ".join.  The texts of the
\* model are shorter than the 100 characters at which the code truncates.
get_transformation_logic(transforms, trans_name, field_name) ==
    IF trans_name \notin DOMAIN transforms THEN <<"Type: Unknown", trans_name>>
    ELSE LET trans == transforms[trans_name]
             hits == SelectSeq(trans.fields,
                               LAMBDA f : f.name = field_name /\ f.expression # <<>>)
         IN  IF trans.type = "Expression" /\ field_name # <<>> /\ hits # <<>>
             THEN <<"Type", trans.type, "Expression", hits[1].expression>>
             ELSE <<"Type", trans.type>>

\* _get_field_datatype
get_field_datatype(transforms, instance_name, field_name) ==
    IF instance_name \in DOMAIN transforms
    THEN LET hits == SelectSeq(transforms[instance_name].fields,
                               LAMBDA f : f.name = field_name)
         IN  IF hits # <<>> THEN hits[1].datatype ELSE "Unknown"
    ELSE "Unknown"

\* the reverse graph keyed by the instance alone
reverse_graph_by_instance(conns, instance, field) ==
    SelectSeq(conns, LAMBDA c : c.to_instance = instance)

\* build_reverse_graph()[instance][field]: the connections into the field,
\* in the order of self.connections
reverse_graph(conns, instance, field) ==
    SelectSeq(conns, LAMBDA c : c.to_instance = instance /\ c.to_field = field)

\* f"{current_instance}.{current_field}.{depth}"
visit_key(instance, field, depth) ==
    instance \o <<".">> \o field \o <<".">> \o <<ToString(depth)>>

\* the depth test `depth > max_depth` left out
depth_exceeded_never(depth, limit) == FALSE

\* the depth test passing one level too many
depth_exceeded_off_by_one(depth, limit) == depth > limit + 1

\* if depth > max_depth: continue
depth_exceeded(depth, limit) == depth > limit

\* LineageRecord(...) built when the dequeued item is a source
make_record(transforms, target, target_fld, item) ==
    [target_table         |-> Remove(target, <<"Shortcut_to_">>),
     target_column        |-> target_fld,
     target_datatype      |-> get_field_datatype(transforms, target, target_fld),
     source_table         |-> Remove(Remove(item.instance, <<"Shortcut_to_">>), <<"SQ_">>),
     source_column        |-> item.field,
     source_datatype      |-> get_field_datatype(transforms, item.instance, item.field),
     transformation_path  |-> Reverse(Append(item.path, item.instance)),
     transformation_logic |-> Reverse(item.logic_path),
     transformation_count |-> Len(item.path),
     direct_source        |-> Len(item.path) = 0]

WorkItem(instance, field, path, logic_path, depth) ==
    [instance |-> instance, field |-> field, path |-> path,
     logic_path |-> logic_path, depth |-> depth]

\* rule a with the logic text taken for empty: `new_logic_path = logic_path`
direct_successors_unlogged(transforms, conns, item) ==
    LET cs == reverse_graph(conns, item.instance, item.field)
    IN  [i \in DOMAIN cs |->
            WorkItem(cs[i].from_instance, cs[i].from_field,
                     Append(item.path, item.instance),
                     item.logic_path, item.depth + 1)]

\* rule a: the direct connections into the field
direct_successors(transforms, conns, item) ==
    LET cs == reverse_graph(conns, item.instance, item.field)
        logic == get_transformation_logic(transforms, item.instance, item.field)
    IN  [i \in DOMAIN cs |->
            WorkItem(cs[i].from_instance, cs[i].from_field,
                     Append(item.path, item.instance),
                     Append(item.logic_path, logic), item.depth + 1)]

IsExpression(transforms, instance) ==
    /\ instance \in DOMAIN transforms
    /\ transforms[instance].type = "Expression"

\* rule b: the fields of the same Expression whose expression text contains
\* the name of the current field
expression_successors(transforms, item) ==
    IF ~IsExpression(transforms, item.instance) THEN <<>>
    ELSE LET fs == SelectSeq(transforms[item.instance].fields,
                             LAMBDA f : f.expression # <<>>
                                        /\ Contains(f.expression, item.field))
         IN  [i \in DOMAIN fs |->
                 WorkItem(item.instance, fs[i].name,
                          Append(item.path, item.instance),
                          Append(item.logic_path, <<"Expression", fs[i].expression>>),
                          item.depth + 1)]

\* rule c, for one connection: one item per field named like the current
\* field whose expression text contains the connection's from_field
binding_items(transforms, conn, item) ==
    LET fs == SelectSeq(transforms[item.instance].fields,
                        LAMBDA f : f.name = item.field /\ f.expression # <<>>
                                   /\ Contains(f.expression, conn.from_field))
    IN  [i \in DOMAIN fs |->
            WorkItem(conn.from_instance, conn.from_field,
                     Append(item.path, item.instance),
                     Append(item.logic_path, <<"Expression", fs[i].expression>>),
                     item.depth + 1)]

\* rule c: every connection into the instance, in the order of self.connections
binding_successors(transforms, conns, item) ==
    IF ~IsExpression(transforms, item.instance) THEN <<>>
    ELSE LET cs == SelectSeq(conns, LAMBDA c : c.to_instance = item.instance)
         IN  Flatten([i \in DOMAIN cs |-> binding_items(transforms, cs[i], item)])

\* everything one loop iteration appends to the queue
successors_of(transforms, conns, item) ==
    direct_successors(transforms, conns, item)
        \o expression_successors(transforms, item)
        \o binding_successors(transforms, conns, item)

-----------------------------------------------------------------------------
(* Inputs: the first k node names are declared instances, the others (at   *)
(* most MaxUndeclared) exist only as connector endpoints; the connectors   *)
(* are listed in the order of their (from, to) pair.                       *)

NodeNames == 1..MaxNodes

ConnectorOf(k) == [from_instance |-> ((k - 1) \div MaxNodes) + 1,
                   to_instance   |-> ((k - 1) % MaxNodes) + 1]

\* the strictly increasing sequences of up to n numbers of lo..MaxNodes^2
IncreasingFrom(lo, n) ==
    UNION {{s \in [1..m -> lo..(MaxNodes * MaxNodes)] :
               \A i \in 1..(m - 1) : s[i] < s[i + 1]}
           : m \in 0..n}

ConnectorLists ==
    {[i \in DOMAIN s |-> ConnectorOf(s[i])] : s \in IncreasingFrom(1, MaxEdges)}

InstanceLists ==
    {[i \in 1..k |-> i] : k \in {j \in 0..MaxNodes : MaxNodes - j <= MaxUndeclared}}

\* a MAPPING element of the metadata: its @NAME, its INSTANCE list and its
\* CONNECTOR list
Mapping(name, insts, conns) == [name |-> name, instance |-> insts, connector |-> conns]

\* a field-level connector; several of them can join the same two instances
FieldConnector(k, to_field) ==
    [from_instance |-> ((k - 1) \div MaxMappingNodes) + 1,
     from_field    |-> "f",
     to_instance   |-> ((k - 1) % MaxMappingNodes) + 1,
     to_field      |-> to_field]

\* the non-decreasing sequences of up to n numbers of lo..MaxMappingNodes^2
NonDecreasingFrom(lo, n) ==
    UNION {{s \in [1..m -> lo..(MaxMappingNodes * MaxMappingNodes)] :
               \A i \in 1..(m - 1) : s[i] <= s[i + 1]}
           : m \in 0..n}

\* the CONNECTOR lists of a mapping: up to MaxFieldConnectors field-level
\* connectors, the i-th one into the field i of its TO instance
FieldConnectorLists ==
    {[i \in DOMAIN s |-> FieldConnector(s[i], i)] : s \in NonDecreasingFrom(1, MaxFieldConnectors)}

MappingInstanceLists ==
    {[i \in 1..k |-> i] : k \in {j \in 0..MaxMappingNodes : MaxMappingNodes - j <= MaxUndeclared}}

\* a second mapping of the workflow
OtherMapping(name) == Mapping(name, <<1>>, <<FieldConnector(1, 1)>>)

\* the workflows around one mapping: no folder, the mapping alone, the mapping
\* followed in its folder by a second mapping, a second mapping in a folder
\* of its own before it
Workflows(insts, conns) ==
    {<<>>}
        \cup {<<<<Mapping(n, insts, conns)>>>> : n \in {"m_A", "m_B"}}
        \cup {<<<<Mapping("m_A", insts, conns), OtherMapping(n)>>>> : n \in {"m_A", "m_B"}}
        \cup {<<<<OtherMapping(n)>>, <<Mapping("m_A", insts, conns)>>>> : n \in {"m_A", "m_B"}}

-----------------------------------------------------------------------------
(* Actions *)

OrderIdle ==
    /\ workflow_data = <<>>
    /\ mapping_name = ""
    /\ mapping_exists = FALSE
    /\ mapping_number = -1
    /\ connectors_data = <<>>
    /\ instances = <<>>
    /\ connectors = <<>>
    /\ mapping_lineage_graph = NoGraph
    /\ transformation_orders = EmptyMap
    /\ parallel_groups = EmptyMap
    /\ prev_orders = EmptyMap
    /\ prev_groups = EmptyMap
    /\ second_run = FALSE
    /\ pc = "idle"

GroupIdle ==
    /\ ipg_subgraph = NoGraph
    /\ ipg_levels = EmptyMap
    /\ ipg_parallel_groups = <<>>
    /\ gpc = "idle"

LineageIdle ==
    /\ lineage_connectors = <<>>
    /\ graph = NoGraph
    /\ target_node = <<>>
    /\ lineage = <<>>
    /\ lpc = "idle"

CallIdle == GroupIdle /\ LineageIdle

TraceIdle ==
    /\ trace_instances = EmptyMap
    /\ transformations = EmptyMap
    /\ connections = <<>>
    /\ target_instance = <<>>
    /\ target_field = <<>>
    /\ max_depth = 0
    /\ queue = <<>>
    /\ visited = {}
    /\ lineage_records = <<>>
    /\ expansions = 0
    /\ tpc = "idle"

\* the generator of a workflow of one mapping, when main() has fetched the
\* mapping's connectors and instances
Init ==
    /\ TraceIdle
    /\ CallIdle
    /\ instances \in InstanceLists
    /\ connectors \in ConnectorLists
    /\ workflow_data = <<<<Mapping("m_A", instances, connectors)>>>>
    /\ mapping_name = "m_A"
    /\ mapping_exists = TRUE
    /\ mapping_number = 0
    /\ connectors_data = <<>>
    /\ mapping_lineage_graph = NoGraph
    /\ transformation_orders = EmptyMap
    /\ parallel_groups = EmptyMap
    /\ prev_orders = EmptyMap
    /\ prev_groups = EmptyMap
    /\ second_run = FALSE
    /\ pc = "fetched"

create_basic_lineage_graph ==
    /\ pc = "fetched"
    /\ mapping_lineage_graph' = build_graph(instances, connectors)
    /\ pc' = "graph"
    /\ UNCHANGED <<instances, connectors, transformation_orders, parallel_groups,
                   prev_orders, prev_groups, second_run>>
    /\ UNCHANGED <<workflowVars, connectors_data>>
    /\ UNCHANGED traceVars
    /\ UNCHANGED callVars

\* _calculate_transformation_order with the cycle breaker at work on the
\* lineage graph itself instead of a copy of the component subgraph
CalculateTransformationOrder_breaking_in_place ==
    /\ pc = "graph"
    /\ \E r \in calculate_transformation_order(mapping_lineage_graph) :
          /\ transformation_orders' = r.orders
          /\ parallel_groups' = r.parallel_groups
    /\ mapping_lineage_graph' \in working_graphs(mapping_lineage_graph)
    /\ pc' = "ordered"
    /\ UNCHANGED <<instances, connectors, prev_orders, prev_groups, second_run>>
    /\ UNCHANGED <<workflowVars, connectors_data>>
    /\ UNCHANGED traceVars
    /\ UNCHANGED callVars

CalculateTransformationOrder ==
    /\ pc = "graph"
    /\ \E r \in calculate_transformation_order(mapping_lineage_graph) :
          /\ transformation_orders' = r.orders
          /\ parallel_groups' = r.parallel_groups
    /\ pc' = "ordered"
    /\ UNCHANGED <<instances, connectors, mapping_lineage_graph,
                   prev_orders, prev_groups, second_run>>
    /\ UNCHANGED <<workflowVars, connectors_data>>
    /\ UNCHANGED traceVars
    /\ UNCHANGED callVars

\* a second InfaLineageGenerator is constructed on the same workflow data
Reanalyse ==
    /\ pc = "ordered"
    /\ ~second_run
    /\ second_run' = TRUE
    /\ prev_orders' = transformation_orders
    /\ prev_groups' = parallel_groups
    /\ mapping_lineage_graph' = NoGraph
    /\ transformation_orders' = EmptyMap
    /\ parallel_groups' = EmptyMap
    /\ pc' = "fetched"
    /\ UNCHANGED <<instances, connectors>>
    /\ UNCHANGED <<workflowVars, connectors_data>>
    /\ UNCHANGED traceVars
    /\ UNCHANGED callVars

Next ==
    \/ create_basic_lineage_graph
    \/ CalculateTransformationOrder
    \/ Reanalyse

Spec == Init /\ [][Next]_vars

-----------------------------------------------------------------------------
(* The constructor InfaLineageGenerator(mapping_name, workflow_data), one   *)
(* action per step of __init__ and main().                                  *)

\* lines 26-33 of __init__ have run
CtorInit ==
    /\ TraceIdle
    /\ CallIdle
    /\ \E insts \in MappingInstanceLists, conns \in FieldConnectorLists :
          workflow_data \in Workflows(insts, conns)
    /\ mapping_name = "m_A"
    /\ mapping_exists = FALSE
    /\ mapping_number = -1
    /\ connectors_data = <<>>
    /\ instances = <<>>
    /\ connectors = <<>>
    /\ mapping_lineage_graph = NoGraph
    /\ transformation_orders = EmptyMap
    /\ parallel_groups = EmptyMap
    /\ prev_orders = EmptyMap
    /\ prev_groups = EmptyMap
    /\ second_run = FALSE
    /\ pc = "new"

OrderResults == <<mapping_lineage_graph, transformation_orders, parallel_groups,
                  prev_orders, prev_groups, second_run>>

CheckIfMappingExists ==
    /\ pc = "new"
    /\ LET r == check_if_mapping_exists(workflow_data, mapping_name)
       IN  /\ mapping_exists' = r.mapping_exists
           /\ mapping_number' = r.mapping_number
    /\ pc' = "checked"
    /\ UNCHANGED <<workflow_data, mapping_name, connectors_data, instances, connectors>>
    /\ UNCHANGED OrderResults
    /\ UNCHANGED traceVars
    /\ UNCHANGED callVars

\* raise Exception(f"Mapping {self.mapping_name} does not exist in the workflow")
MappingDoesNotExist ==
    /\ pc = "checked"
    /\ ~mapping_exists
    /\ pc' = "raised"
    /\ UNCHANGED <<workflowVars, connectors_data, instances, connectors>>
    /\ UNCHANGED OrderResults
    /\ UNCHANGED traceVars
    /\ UNCHANGED callVars

fetch_all_connectors ==
    /\ pc = "checked"
    /\ mapping_exists
    /\ connectors' = connectors \o mapping_data_of(workflow_data, mapping_number).connector
    /\ pc' = "connectors"
    /\ UNCHANGED <<workflowVars, connectors_data, instances>>
    /\ UNCHANGED OrderResults
    /\ UNCHANGED traceVars
    /\ UNCHANGED callVars

fetch_all_instances ==
    /\ pc = "connectors"
    /\ instances' = instances \o mapping_data_of(workflow_data, mapping_number).instance
    /\ pc' = "fetched"
    /\ UNCHANGED <<workflowVars, connectors_data, connectors>>
    /\ UNCHANGED OrderResults
    /\ UNCHANGED traceVars
    /\ UNCHANGED callVars

\* process_mapping, after _extract_transformation_logic
process_mapping ==
    /\ pc = "ordered"
    /\ connectors_data' =
          connectors_data \o
            [i \in DOMAIN connectors |->
                process_connector_with_lineage(connectors[i], transformation_orders,
                                               parallel_groups)]
    /\ pc' = "processed"
    /\ UNCHANGED <<workflowVars, instances, connectors>>
    /\ UNCHANGED OrderResults
    /\ UNCHANGED traceVars
    /\ UNCHANGED callVars

CtorNext ==
    \/ CheckIfMappingExists
    \/ MappingDoesNotExist
    \/ fetch_all_connectors
    \/ fetch_all_instances
    \/ create_basic_lineage_graph
    \/ CalculateTransformationOrder
    \/ process_mapping

CtorSpec == CtorInit /\ [][CtorNext]_vars

-----------------------------------------------------------------------------
(* InformaticaMappingExtractor._calculate_transformation_order             *)
(* (XMLify/logical/logic_conn_csv_export.py).  Its argument connectors and *)
(* the dict transformation_orders it returns are held in the variables of  *)
(* the same name; instances holds the transformation names of              *)
(* transformation_logic_cache[mapping_name].  The graph is a local of the  *)
(* method.                                                                 *)

\* all_instances: the set of the connectors' ends
all_instances(conns) ==
    {conns[i].from_instance : i \in DOMAIN conns}
        \cup {conns[i].to_instance : i \in DOMAIN conns}

\* G after add_nodes_from(all_instances), the set being iterated in the
\* order node_order, and add_edges_from(edges)
extractor_graph(conns, node_order) ==
    AddConnectors([nodes |-> node_order, edges |-> <<>>], conns)

RECURSIVE ExtractorComponents(_, _, _)
\* the loop over connected_components: a component of one node gets 0, the
\* others the breadth-first level plus 1
ExtractorComponents(G, connected_components, i) ==
    IF i > Len(connected_components) THEN EmptyMap
    ELSE LET component == connected_components[i]
             sub == subgraph(G, component)
             levels == fallback_levels(sub, component_sources(sub))
             here == IF Cardinality(component) = 1
                     THEN [n \in component |-> 0]
                     ELSE [n \in DOMAIN levels |-> exported_level(levels[n])]
         IN  Update(ExtractorComponents(G, connected_components, i + 1), here)

\* the transformations of the cache that are in no connector get order 0
with_unconnected(orders, cache_names) ==
    [n \in DOMAIN orders \cup Range(cache_names) |->
        IF n \in DOMAIN orders THEN orders[n] ELSE 0]

\* the dicts the method can return, one for every iteration order of the set
\* all_instances.  No statement of the try blocks raises on a DiGraph, so
\* the sequential-numbering handlers are not entered.
extractor_transformation_order(conns, cache_names) ==
    {LET G == extractor_graph(conns, node_order)
     IN  with_unconnected(ExtractorComponents(G, weakly_connected_components(G), 1),
                          cache_names)
     : node_order \in Orders(all_instances(conns))}

ExtractorInit ==
    /\ TraceIdle
    /\ CallIdle
    /\ workflow_data = <<>>
    /\ mapping_name = "m_A"
    /\ mapping_exists = FALSE
    /\ mapping_number = -1
    /\ connectors_data = <<>>
    /\ instances \in InstanceLists
    /\ connectors \in ConnectorLists
    /\ mapping_lineage_graph = NoGraph
    /\ transformation_orders = EmptyMap
    /\ parallel_groups = EmptyMap
    /\ prev_orders = EmptyMap
    /\ prev_groups = EmptyMap
    /\ second_run = FALSE
    /\ pc = "extract"

ExtractorCalculateTransformationOrder ==
    /\ pc = "extract"
    /\ transformation_orders' \in extractor_transformation_order(connectors, instances)
    /\ pc' = "extracted"
    /\ UNCHANGED <<workflowVars, connectors_data, instances, connectors,
                   mapping_lineage_graph, parallel_groups, prev_orders, prev_groups,
                   second_run>>
    /\ UNCHANGED traceVars
    /\ UNCHANGED callVars

ExtractorNext == ExtractorCalculateTransformationOrder

ExtractorSpec == ExtractorInit /\ [][ExtractorNext]_vars

-----------------------------------------------------------------------------
(* One call of _identify_parallel_groups on arguments of its own: a graph  *)
(* of MaxGroupNodes nodes with up to MaxGroupEdges edges, listed in the    *)
(* order of their (from, to) pair, and a dict that gives every node a      *)
(* level of 0..MaxLevel.                                                   *)

GroupEdgeOf(k) == <<((k - 1) \div MaxGroupNodes) + 1, ((k - 1) % MaxGroupNodes) + 1>>

GroupEdgeLists ==
    {[i \in DOMAIN s |-> GroupEdgeOf(s[i])] :
        s \in UNION {{f \in [1..m -> 1..(MaxGroupNodes * MaxGroupNodes)] :
                         \A i \in 1..(m - 1) : f[i] < f[i + 1]}
                     : m \in 0..MaxGroupEdges}}

GroupGraphs ==
    {[nodes |-> [i \in 1..MaxGroupNodes |-> i], edges |-> es] : es \in GroupEdgeLists}

GroupInit ==
    /\ OrderIdle
    /\ TraceIdle
    /\ LineageIdle
    /\ ipg_subgraph \in GroupGraphs
    /\ ipg_levels \in [1..MaxGroupNodes -> 0..MaxLevel]
    /\ ipg_parallel_groups = <<>>
    /\ gpc = "call"

\* the call: the dict levels is iterated in the order of the graph's nodes
IdentifyParallelGroups ==
    /\ gpc = "call"
    /\ ipg_parallel_groups' \in
          identify_parallel_groups(ipg_subgraph, ipg_subgraph.nodes, ipg_levels)
    /\ gpc' = "returned"
    /\ UNCHANGED <<ipg_subgraph, ipg_levels>>
    /\ UNCHANGED <<orderVars, traceVars, lineageVars>>

GroupNext == IdentifyParallelGroups

GroupSpec == GroupInit /\ [][GroupNext]_vars

-----------------------------------------------------------------------------
(* PowerCenterLineage (XMLify/connector_based_lineage.py) *)

\* the name of a field node: f"{instance_type}.{instance}.{field}"
field_node(instance_type, instance, field) == <<instance_type, instance, field>>

\* the attribute type of a node, normalised from its instance type
node_type(node) ==
    IF node[1] = "Source Definition" THEN "source"
    ELSE IF node[1] = "Target Definition" THEN "target"
    ELSE "transformation"

\* _build_lineage_graph: both ends of every connector become nodes, in
\* connector order, and the connector an edge
RECURSIVE build_lineage_graph(_, _)
build_lineage_graph(G, conns) ==
    IF conns = <<>> THEN G
    ELSE LET connector == Head(conns)
             from_node == field_node(connector.FROMINSTANCETYPE,
                                     connector.FROMINSTANCE, connector.FROMFIELD)
             to_node == field_node(connector.TOINSTANCETYPE,
                                   connector.TOINSTANCE, connector.TOFIELD)
         IN  build_lineage_graph(
                 add_edge(add_node(add_node(G, from_node), to_node), from_node, to_node),
                 Tail(conns))

\* the dict appended to lineage for a node
lineage_entry(node) ==
    [node |-> node, type |-> node_type(node), field |-> node[3],
     instance |-> node[2], instance_type |-> node[1]]

RECURSIVE dfs(_, _, _)
RECURSIVE dfs_predecessors(_, _, _)
\* dfs of _trace_lineage; st holds the closure's lineage and visited
dfs(G, node, st) ==
    IF node \in st.visited THEN st
    ELSE dfs_predecessors(G, predecessors(G, node),
                          [visited |-> st.visited \cup {node},
                           lineage |-> Append(st.lineage, lineage_entry(node))])

\* for predecessor in graph.predecessors(node): dfs(predecessor)
dfs_predecessors(G, preds, st) ==
    IF preds = <<>> THEN st
    ELSE dfs_predecessors(G, Tail(preds), dfs(G, Head(preds), st))

\* _trace_lineage: the nodes in the order dfs first met them, reversed
trace_lineage_nodes(G, target) ==
    Reverse(dfs(G, target, [visited |-> {}, lineage |-> <<>>]).lineage)

\* target_nodes of generate_lineage, in node order
target_nodes(G) == SelectSeq(G.nodes, LAMBDA n : node_type(n) = "target")

\* the targets generate_lineage has still to trace
remaining_targets(G, traced) ==
    LET ts == target_nodes(G)
    IN  IF traced = <<>> THEN ts
        ELSE SubSeq(ts, (CHOOSE i \in DOMAIN ts : ts[i] = traced) + 1, Len(ts))

(* Inputs: field nodes 1..MaxFieldNodes, one field each; the first is of a *)
(* Source Definition, the last two of Target Definitions, the others of    *)
(* Expressions.  Up to MaxLineageConnectors connectors in any order, every *)
(* one with its six attributes.                                            *)
InstanceTypeOf(k) ==
    IF k = 1 THEN "Source Definition"
    ELSE IF k >= MaxFieldNodes - 1 THEN "Target Definition"
    ELSE "Expression"

LineageConnector(k) ==
    LET f == ((k - 1) \div MaxFieldNodes) + 1
        t == ((k - 1) % MaxFieldNodes) + 1
    IN  [FROMINSTANCETYPE |-> InstanceTypeOf(f), FROMINSTANCE |-> f, FROMFIELD |-> "ID",
         TOINSTANCETYPE |-> InstanceTypeOf(t), TOINSTANCE |-> t, TOFIELD |-> "ID"]

LineageConnectorLists(n) ==
    UNION {{[i \in 1..m |-> LineageConnector(s[i])]
              : s \in [1..m -> 1..(MaxFieldNodes * MaxFieldNodes)]}
           : m \in 0..n}

LineageInit ==
    /\ OrderIdle
    /\ TraceIdle
    /\ GroupIdle
    /\ lineage_connectors \in LineageConnectorLists(MaxLineageConnectors)
    /\ graph = NoGraph
    /\ target_node = <<>>
    /\ lineage = <<>>
    /\ lpc = "call"

BuildLineageGraph ==
    /\ lpc = "call"
    /\ graph' = build_lineage_graph(NoGraph, lineage_connectors)
    /\ lpc' = "built"
    /\ UNCHANGED <<lineage_connectors, target_node, lineage>>
    /\ UNCHANGED <<orderVars, traceVars, groupVars>>

\* one turn of the loop over target_nodes
TraceLineage ==
    /\ lpc \in {"built", "traced"}
    /\ remaining_targets(graph, target_node) # <<>>
    /\ target_node' = Head(remaining_targets(graph, target_node))
    /\ lineage' = trace_lineage_nodes(graph, target_node')
    /\ lpc' = "traced"
    /\ UNCHANGED <<lineage_connectors, graph>>
    /\ UNCHANGED <<orderVars, traceVars, groupVars>>

\* the loop over target_nodes is over
LineageGenerated ==
    /\ lpc \in {"built", "traced"}
    /\ remaining_targets(graph, target_node) = <<>>
    /\ lpc' = "done"
    /\ UNCHANGED <<lineage_connectors, graph, target_node, lineage>>
    /\ UNCHANGED <<orderVars, traceVars, groupVars>>

LineageNext == BuildLineageGraph \/ TraceLineage \/ LineageGenerated

LineageSpec == LineageInit /\ [][LineageNext]_vars

-----------------------------------------------------------------------------
(* Inputs of a trace: one mapping with a declared source, its source        *)
(* qualifier, an Expression, a Filter and two declared targets; up to       *)
(* MaxConnections of the connections below; the expressions of the          *)
(* Expression's two fields.                                                 *)

CUST == <<"CUST">>
SQ_CUST == <<"SQ_", "CUST">>
EXP == <<"EXP">>
FIL == <<"FIL">>
TGT == <<"TGT">>
TGT_SEQ == <<"TGT", "SEQ_", "NO">>

fa == <<"a">>
fb == <<"b">>

MappingInstances ==
    (CUST    :> [TYPE |-> "SOURCE", TRANSFORMATION_TYPE |-> <<"Source", "Definition">>]) @@
    (SQ_CUST :> [TYPE |-> "TRANSFORMATION", TRANSFORMATION_TYPE |-> <<"Source", "Qualifier">>]) @@
    (EXP     :> [TYPE |-> "TRANSFORMATION", TRANSFORMATION_TYPE |-> <<"Expression">>]) @@
    (FIL     :> [TYPE |-> "TRANSFORMATION", TRANSFORMATION_TYPE |-> <<"Filter">>]) @@
    (TGT     :> [TYPE |-> "TARGET", TRANSFORMATION_TYPE |-> <<"Target", "Definition">>]) @@
    (TGT_SEQ :> [TYPE |-> "TARGET", TRANSFORMATION_TYPE |-> <<"Target", "Definition">>])

Field(name, expression) == [name |-> name, datatype |-> "string", expression |-> expression]

MappingTransformations(expr_a, expr_b) ==
    (SQ_CUST :> [type |-> "Source Qualifier", fields |-> <<Field(fa, <<>>), Field(fb, <<>>)>>]) @@
    (EXP     :> [type |-> "Expression", fields |-> <<Field(fa, expr_a), Field(fb, expr_b)>>]) @@
    (FIL     :> [type |-> "Filter", fields |-> <<Field(fa, <<>>)>>])

\* the expression texts of EXP.a and EXP.b
ExpressionChoices ==
    {<< <<>>, <<>> >>,
     << <<"a">>, <<>> >>,
     << <<"b">>, <<>> >>,
     << <<"b", "+", "a">>, <<>> >>,
     << <<"b">>, <<"a">> >>}

Connection(fi, ff, ti, tf) ==
    [from_instance |-> fi, from_field |-> ff, to_instance |-> ti, to_field |-> tf]

ConnectionUniverse ==
    <<Connection(CUST, fa, TGT, fa),
      Connection(EXP, fa, TGT, fa),
      Connection(FIL, fa, TGT, fa),
      Connection(SQ_CUST, fa, TGT, fa),
      Connection(EXP, fb, TGT, fa),
      Connection(CUST, fa, EXP, fa),
      Connection(CUST, fb, EXP, fb),
      Connection(SQ_CUST, fa, EXP, fa),
      Connection(FIL, fa, EXP, fa),
      Connection(EXP, fa, FIL, fa),
      Connection(CUST, fa, FIL, fa),
      Connection(CUST, fa, SQ_CUST, fa)>>

RECURSIVE Picks(_, _)
Picks(lo, n) ==
    IF n = 0 THEN {<<>>}
    ELSE {<<>>} \cup
         UNION {{<<k>> \o r : r \in Picks(k + 1, n - 1)}
                : k \in lo..Len(ConnectionUniverse)}

ConnectionLists ==
    {[i \in DOMAIN s |-> ConnectionUniverse[s[i]]] : s \in Picks(1, MaxConnections)}

TracedFields == {<<TGT, fa>>, <<TGT, fb>>, <<TGT_SEQ, fa>>, <<EXP, fa>>, <<EXP, fb>>}

-----------------------------------------------------------------------------
(* trace_lineage: the call, one action per way through the loop body, and  *)
(* the return.                                                             *)

TraceInit ==
    /\ OrderIdle
    /\ CallIdle
    /\ trace_instances = MappingInstances
    /\ \E x \in ExpressionChoices : transformations = MappingTransformations(x[1], x[2])
    /\ connections \in ConnectionLists
    /\ \E t \in TracedFields : target_instance = t[1] /\ target_field = t[2]
    /\ max_depth \in 0..MaxDepth
    /\ queue = <<>>
    /\ visited = {}
    /\ lineage_records = <<>>
    /\ expansions = 0
    /\ tpc = "idle"

TraceInputs == <<trace_instances, transformations, connections, target_instance,
                 target_field, max_depth>>

trace_lineage_call ==
    /\ tpc = "idle"
    /\ queue' = <<WorkItem(target_instance, target_field, <<>>, <<>>, 0)>>
    /\ visited' = {}
    /\ lineage_records' = <<>>
    /\ tpc' = "loop"
    /\ UNCHANGED <<TraceInputs, expansions>>
    /\ UNCHANGED orderVars
    /\ UNCHANGED callVars

Dequeued == Head(queue)

DequeuedKey == visit_key(Dequeued.instance, Dequeued.field, Dequeued.depth)

DequeuedIsSource ==
    is_lineage_source(Dequeued.instance, trace_instances, transformations, connections)

Looping == tpc = "loop" /\ queue # <<>>

MaxDepthReached ==
    /\ Looping
    /\ depth_exceeded(Dequeued.depth, max_depth)
    /\ queue' = Tail(queue)
    /\ UNCHANGED <<TraceInputs, visited, lineage_records, expansions, tpc>>
    /\ UNCHANGED orderVars
    /\ UNCHANGED callVars

AlreadyVisited ==
    /\ Looping
    /\ ~depth_exceeded(Dequeued.depth, max_depth)
    /\ DequeuedKey \in visited
    /\ queue' = Tail(queue)
    /\ UNCHANGED <<TraceInputs, visited, lineage_records, expansions, tpc>>
    /\ UNCHANGED orderVars
    /\ UNCHANGED callVars

\* FoundSource with the source test ahead of the visited test
FoundSource_before_visited_test ==
    /\ Looping
    /\ ~depth_exceeded(Dequeued.depth, max_depth)
    /\ DequeuedIsSource
    /\ visited' = visited \cup {DequeuedKey}
    /\ lineage_records' =
          Append(lineage_records,
                 make_record(transformations, target_instance, target_field, Dequeued))
    /\ queue' = Tail(queue)
    /\ expansions' = expansions + 1
    /\ UNCHANGED <<TraceInputs, tpc>>
    /\ UNCHANGED orderVars
    /\ UNCHANGED callVars

\* FoundSource without the `continue` that ends it: the record is appended
\* and the loop body goes on to the three expansion rules
FoundSource_without_continue ==
    /\ Looping
    /\ ~depth_exceeded(Dequeued.depth, max_depth)
    /\ DequeuedKey \notin visited
    /\ DequeuedIsSource
    /\ visited' = visited \cup {DequeuedKey}
    /\ lineage_records' =
          Append(lineage_records,
                 make_record(transformations, target_instance, target_field, Dequeued))
    /\ queue' = Tail(queue) \o successors_of(transformations, connections, Dequeued)
    /\ expansions' = expansions + 1
    /\ UNCHANGED <<TraceInputs, tpc>>
    /\ UNCHANGED orderVars
    /\ UNCHANGED callVars

FoundSource ==
    /\ Looping
    /\ ~depth_exceeded(Dequeued.depth, max_depth)
    /\ DequeuedKey \notin visited
    /\ DequeuedIsSource
    /\ visited' = visited \cup {DequeuedKey}
    /\ lineage_records' =
          Append(lineage_records,
                 make_record(transformations, target_instance, target_field, Dequeued))
    /\ queue' = Tail(queue)
    /\ expansions' = expansions + 1
    /\ UNCHANGED <<TraceInputs, tpc>>
    /\ UNCHANGED orderVars
    /\ UNCHANGED callVars

\* FollowConnections on a stack: the new items go to the front of the queue
FollowConnections_depth_first ==
    /\ Looping
    /\ ~depth_exceeded(Dequeued.depth, max_depth)
    /\ DequeuedKey \notin visited
    /\ ~DequeuedIsSource
    /\ successors_of(transformations, connections, Dequeued) # <<>>
    /\ visited' = visited \cup {DequeuedKey}
    /\ queue' = successors_of(transformations, connections, Dequeued) \o Tail(queue)
    /\ expansions' = expansions + 1
    /\ UNCHANGED <<TraceInputs, lineage_records, tpc>>
    /\ UNCHANGED orderVars
    /\ UNCHANGED callVars

FollowConnections ==
    /\ Looping
    /\ ~depth_exceeded(Dequeued.depth, max_depth)
    /\ DequeuedKey \notin visited
    /\ ~DequeuedIsSource
    /\ successors_of(transformations, connections, Dequeued) # <<>>
    /\ visited' = visited \cup {DequeuedKey}
    /\ queue' = Tail(queue) \o successors_of(transformations, connections, Dequeued)
    /\ expansions' = expansions + 1
    /\ UNCHANGED <<TraceInputs, lineage_records, tpc>>
    /\ UNCHANGED orderVars
    /\ UNCHANGED callVars

DeadEnd ==
    /\ Looping
    /\ ~depth_exceeded(Dequeued.depth, max_depth)
    /\ DequeuedKey \notin visited
    /\ ~DequeuedIsSource
    /\ successors_of(transformations, connections, Dequeued) = <<>>
    /\ visited' = visited \cup {DequeuedKey}
    /\ queue' = Tail(queue)
    /\ expansions' = expansions + 1
    /\ UNCHANGED <<TraceInputs, lineage_records, tpc>>
    /\ UNCHANGED orderVars
    /\ UNCHANGED callVars

trace_lineage_return ==
    /\ tpc = "loop"
    /\ queue = <<>>
    /\ tpc' = "done"
    /\ UNCHANGED <<TraceInputs, queue, visited, lineage_records, expansions>>
    /\ UNCHANGED orderVars
    /\ UNCHANGED callVars

TraceNext ==
    \/ trace_lineage_call
    \/ MaxDepthReached
    \/ AlreadyVisited
    \/ FoundSource
    \/ FollowConnections
    \/ DeadEnd
    \/ trace_lineage_return

\* trace_lineage is one synchronous call: its loop keeps running until the
\* queue is empty
TraceSpec == TraceInit /\ [][TraceNext]_vars /\ WF_vars(TraceNext)


-----------------------------------------------------------------------------
(* Properties of the ordering engine, read in the states where             *)
(* _calculate_transformation_order has returned.                           *)

Ordered == pc = "ordered"

GraphNodes == Range(mapping_lineage_graph.nodes)

GraphEdges == Range(mapping_lineage_graph.edges)

Levelled == DOMAIN transformation_orders

ComponentOf(n) == Connected(mapping_lineage_graph, {n})

PathBetween(a, b) ==
    \/ has_path(mapping_lineage_graph, a, b)
    \/ has_path(mapping_lineage_graph, b, a)

HasIncidentEdge(n) == \E e \in GraphEdges : e[1] = n \/ e[2] = n

Cyclic(component) == topological_sort(subgraph(mapping_lineage_graph, component)).raised # "none"

\* the partition of the nodes that a group map induces
PartitionOf(groups) ==
    {{n \in DOMAIN groups : groups[n] = groups[m]} : m \in DOMAIN groups}

\* C1: for every edge u->v between two levelled nodes (self-loops set aside;
\* cycle-breaking removes no edge, it is never entered), the exported level
\* of v is at least the exported level of u plus 1.
C1_EdgeLevelsIncrease ==
    Ordered =>
        \A e \in GraphEdges :
            (e[1] # e[2] /\ e[1] \in Levelled /\ e[2] \in Levelled) =>
                transformation_orders[e[2]] >= transformation_orders[e[1]] + 1

\* C2: two distinct nodes reported with the same parallel-group id have no
\* directed path between them in either direction in the full graph.
C2_SameGroupNoPath ==
    Ordered =>
        \A a, b \in DOMAIN parallel_groups :
            (a # b /\ parallel_groups[a] = parallel_groups[b]) => ~PathBetween(a, b)

\* C4: after level assignment every node of the graph has a level, a
\* non-negative integer.
C4_EveryNodeLevelled ==
    Ordered =>
        /\ Levelled = GraphNodes
        /\ \A n \in Levelled : transformation_orders[n] \in Nat

C7_ComponentHasLevelOne ==
    Ordered =>
        \A n \in GraphNodes :
            Cardinality(ComponentOf(n)) >= 2 =>
                \E m \in ComponentOf(n) \cap Levelled : transformation_orders[m] = 1

\* two in-degree-0 nodes a, b that both feed the node g
FanIn(a, b, g) ==
    /\ a # b /\ a # g /\ b # g
    /\ has_edge(mapping_lineage_graph, a, g)
    /\ has_edge(mapping_lineage_graph, b, g)
    /\ in_degree(mapping_lineage_graph, a) = 0
    /\ in_degree(mapping_lineage_graph, b) = 0

GroupMembers(n) == {m \in DOMAIN parallel_groups : parallel_groups[m] = parallel_groups[n]}

\* C10 as stated: two sources feeding the same Aggregator are reported as two
\* singleton groups, and the Aggregator as a single-node group.
C10_SourcesInSingletonGroups ==
    Ordered =>
        \A a, b, g \in GraphNodes :
            FanIn(a, b, g) =>
                /\ GroupMembers(a) = {a}
                /\ GroupMembers(b) = {b}
                /\ GroupMembers(g) = {g}

\* C10 amended: the two sources are reported together in one parallel group
\* at their level, and the Aggregator in another group, which holds exactly
\* the nodes of the component that have the Aggregator's level.
C10_SourcesShareGroup ==
    [](Ordered =>
        \A a, b, g \in GraphNodes :
            FanIn(a, b, g) =>
                /\ {a, b, g} \subseteq Levelled
                /\ transformation_orders[a] = transformation_orders[b]
                /\ parallel_groups[a] = parallel_groups[b]
                /\ parallel_groups[g] # parallel_groups[a]
                /\ GroupMembers(g) =
                      {m \in ComponentOf(g) \cap Levelled :
                          transformation_orders[m] = transformation_orders[g]})

\* C10 witness: the scenario itself, two sources and their Aggregator alone
\* in a component, the Aggregator being the only node of its level.
C10_Witness ==
    /\ Ordered
    /\ \E a, b, g \in GraphNodes :
          /\ FanIn(a, b, g)
          /\ ComponentOf(g) = {a, b, g}
          /\ GroupMembers(a) = {a, b}
          /\ GroupMembers(g) = {g}

-----------------------------------------------------------------------------
(* Linear chains, partition, longest paths *)

ComponentGraph(n) == subgraph(mapping_lineage_graph, ComponentOf(n))

\* a component whose edges form one simple directed path through all its nodes
IsLinearChain(component) ==
    LET g == subgraph(mapping_lineage_graph, component)
    IN  /\ Cardinality(component) >= 2
        /\ Len(g.edges) = Cardinality(component) - 1
        /\ \A e \in Range(g.edges) : e[1] # e[2]
        /\ \A n \in component : in_degree(g, n) <= 1 /\ out_degree(g, n) <= 1

\* the position, counted from 1, of a node in its chain
ChainPosition(component, n) ==
    Cardinality({m \in component : has_path(mapping_lineage_graph, m, n)})

\* C11: in a component that is one linear chain of n >= 2 nodes the i-th node
\* has exported level i (the first one level 1) and is alone in its parallel
\* group, so that every level has one group of one node.
C11_LinearChainLevels ==
    Ordered =>
        LET components == weakly_connected_components(mapping_lineage_graph)
        IN  \A i \in DOMAIN components :
                IsLinearChain(components[i]) =>
                    \A n \in components[i] :
                        /\ n \in Levelled
                        /\ transformation_orders[n] = ChainPosition(components[i], n)
                        /\ GroupMembers(n) = {n}

\* C11 witness: the whole graph is a chain of four nodes whose connectors run
\* against the order in which the instances are declared, levelled 1, 2, 3, 4.
C11_Witness ==
    /\ Ordered
    /\ \E a, b, c, d \in GraphNodes :
          /\ a > b /\ b > c /\ c > d
          /\ GraphEdges = {<<a, b>>, <<b, c>>, <<c, d>>}
          /\ GraphNodes = {a, b, c, d}
          /\ transformation_orders[a] = 1
          /\ transformation_orders[b] = 2
          /\ transformation_orders[c] = 3
          /\ transformation_orders[d] = 4
          /\ \A n \in GraphNodes : GroupMembers(n) = {n}

\* C17: the group ids partition each level's node set: every levelled node
\* has exactly one group id, and two nodes with the same group id have the
\* same level and lie in the same weakly-connected component.
C17_GroupsPartitionLevels ==
    Ordered =>
        LET components == weakly_connected_components(mapping_lineage_graph)
        IN  /\ DOMAIN parallel_groups = Levelled
            /\ \A a, b \in Levelled :
                  (a # b /\ parallel_groups[a] = parallel_groups[b]) =>
                      /\ transformation_orders[a] = transformation_orders[b]
                      /\ \E i \in DOMAIN components : {a, b} \subseteq components[i]

\* C17 witness: two components of two nodes each, so that nodes of the same
\* level, grouped under the same counter, differ in their component only.
C17_Witness ==
    /\ Ordered
    /\ \E a, b, c, d \in Levelled :
          /\ ComponentOf(a) = {a, b}
          /\ ComponentOf(c) = {c, d}
          /\ a # c
          /\ transformation_orders[a] = transformation_orders[c]
          /\ parallel_groups[a] # parallel_groups[c]
          /\ parallel_groups[a][1] = "comp"
          /\ parallel_groups[c][1] = "comp"

RECURSIVE LongestFrom(_, _, _, _, _)
\* S holds the nodes from which a walk of exactly k edges leads to the node in
\* question; best is the greatest j < k for which such a walk starts at an
\* in-degree-0 node (-1 if there is none).  Walks of more edges than the
\* graph has nodes are not paths.
LongestFrom(G, entries, S, k, best) ==
    IF S = {} \/ k > Len(G.nodes) THEN best
    ELSE LongestFrom(G, entries,
                     {G.edges[i][1] : i \in {j \in DOMAIN G.edges : G.edges[j][2] \in S}},
                     k + 1,
                     IF S \cap entries # {} THEN k ELSE best)

\* the number of edges of the longest path from an in-degree-0 node to n
LongestPathTo(G, n) ==
    LongestFrom(G, {m \in Range(G.nodes) : in_degree(G, m) = 0}, {n}, 0, -1)

\* C20: in an acyclic weakly-connected component of at least 2 nodes the
\* exported level of each node is 1 plus the number of edges of the longest
\* path from an in-degree-0 node of the component to it.
C20_LevelIsLongestPath ==
    [](Ordered =>
        LET components == weakly_connected_components(mapping_lineage_graph)
        IN  \A i \in DOMAIN components :
                (Cardinality(components[i]) >= 2 /\ ~Cyclic(components[i])) =>
                    LET g == subgraph(mapping_lineage_graph, components[i])
                    IN  \A n \in components[i] :
                            /\ n \in Levelled
                            /\ transformation_orders[n] = 1 + LongestPathTo(g, n))

\* C20 witness: a node reached from the same source by a branch of one edge
\* and by a branch of two edges has taken the longer one.
C20_Witness ==
    /\ Ordered
    /\ \E a, b, c \in GraphNodes :
          /\ a # b /\ b # c /\ a # c
          /\ {<<a, c>>, <<a, b>>, <<b, c>>} \subseteq GraphEdges
          /\ ~Cyclic(ComponentOf(c))
          /\ predecessors(mapping_lineage_graph, c) = <<b, a>>
          /\ transformation_orders[a] = 1
          /\ transformation_orders[c] = 3

-----------------------------------------------------------------------------
(* Self-loops, cycles and the fallbacks *)

HasSelfLoop(component) == \E n \in component : <<n, n>> \in GraphEdges

\* the graph with every edge u->u taken out
without_self_loops(G) == [G EXCEPT !.edges = SelectSeq(@, LAMBDA e : e[1] # e[2])]

\* the level map that _calculate_transformation_order gives for the graph G
\* (the iteration order of the partitioner's sets does not reach the levels)
LevelsOf(G) == (CHOOSE r \in calculate_transformation_order(G) : TRUE).orders

\* C13: a self-loop contributes 0 to levels: every levelled node has the
\* exported level that it has in the same graph with the self-loops removed.
C13_SelfLoopsContributeZero ==
    Ordered =>
        \A n \in Levelled :
            LET plain == LevelsOf(without_self_loops(mapping_lineage_graph))
            IN  n \in DOMAIN plain /\ transformation_orders[n] = plain[n]

\* TRUE of a group id that the code writes only for a degraded ordering
IsDegradedMarker(id) == \E i \in 0..MaxNodes : id = sequential_group_name(i)

\* C14: whenever the levels of a component come from a fallback, the result
\* says so: it holds a group id of the fallback kind for the component.  (The
\* result is the pair of dicts orders and parallel_groups; the breadth-first
\* fallback is the one a graph can reach.)
C14_FallbackIsMarked ==
    Ordered =>
        \A n \in GraphNodes :
            (Cardinality(ComponentOf(n)) >= 2 /\ Cyclic(ComponentOf(n))) =>
                \E m \in ComponentOf(n) \cap DOMAIN parallel_groups :
                    IsDegradedMarker(parallel_groups[m])

\* the exported levels of the longest-path walk over the order `order`
WalkOrders(G, order) ==
    LET levels == WalkLevels(G, component_sources(G), order, EmptyMap)
    IN  [m \in DOMAIN levels |-> exported_level(levels[m])]

\* TRUE of the group ids f"comp_{i}_level_{l}_group_{g}" of the regular path
IsRegularGroupName(id) == Len(id) = Len(group_name(0, 0, 0))

\* C18: a component with a cycle (of two nodes or more: self-loops set aside)
\* is levelled by the longest-path walk over an order that
\* _handle_cyclic_graph returns, and its group ids are those of the regular
\* path, not those of the breadth-first fallback.
C18_CycleGoesToCycleBreaking ==
    Ordered =>
        \A n \in GraphNodes :
            (Cyclic(ComponentOf(n)) /\ ~HasSelfLoop(ComponentOf(n))) =>
                /\ \E order \in handle_cyclic_graph(ComponentGraph(n),
                                                    component_sources(ComponentGraph(n))) :
                      \A m \in ComponentOf(n) :
                          /\ m \in Levelled
                          /\ transformation_orders[m] = WalkOrders(ComponentGraph(n), order)[m]
                /\ \A m \in ComponentOf(n) \cap DOMAIN parallel_groups :
                      IsRegularGroupName(parallel_groups[m])

\* C19: for every component with a cycle (of two nodes or more: self-loops
\* set aside), the working graph with which _handle_cyclic_graph ends its
\* removals is acyclic.
C19_CycleBreakingEndsAcyclic ==
    Ordered =>
        \A n \in GraphNodes :
            (Cyclic(ComponentOf(n)) /\ ~HasSelfLoop(ComponentOf(n))) =>
                \A temp_graph \in working_graphs(ComponentGraph(n)) :
                    topological_sort(temp_graph).raised = "none"

-----------------------------------------------------------------------------
(* Properties of the constructor *)

GraphBuilt == pc \in {"graph", "ordered", "processed"}

Endpoints == {connectors[i].from_instance : i \in DOMAIN connectors}
                 \cup {connectors[i].to_instance : i \in DOMAIN connectors}

ConnectorPairs ==
    {<<connectors[i].from_instance, connectors[i].to_instance>> : i \in DOMAIN connectors}

\* C12: the graph's nodes are exactly the declared instances and the connector
\* endpoints, it has exactly one edge for each distinct (from instance, to
\* instance) pair of the connectors, and the connector list still holds every
\* field-level connector of the mapping.
C12_GraphOfInstancesAndConnectors ==
    GraphBuilt =>
        /\ GraphNodes = Range(instances) \cup Endpoints
        /\ Len(mapping_lineage_graph.nodes) = Cardinality(GraphNodes)
        /\ GraphEdges = ConnectorPairs
        /\ Len(mapping_lineage_graph.edges) = Cardinality(ConnectorPairs)
        /\ connectors = mapping_data_of(workflow_data, mapping_number).connector

\* C12 witness: a graph built from three field-level connectors of one pair
\* of instances, one of them an endpoint that no instance declares.
C12_Witness ==
    /\ GraphBuilt
    /\ Len(connectors) = MaxFieldConnectors
    /\ Cardinality(ConnectorPairs) = 1
    /\ \E n \in Endpoints : n \notin Range(instances)
    /\ \E n \in Endpoints : n \in Range(instances)
    /\ Len(mapping_lineage_graph.edges) = 1

\* the positions, in _extract_mappings order, of the mappings of the name
MatchingMappings ==
    {i \in DOMAIN extract_mappings(workflow_data) :
        extract_mappings(workflow_data)[i].name = mapping_name}

NothingComputed ==
    /\ connectors = <<>>
    /\ instances = <<>>
    /\ mapping_lineage_graph = NoGraph
    /\ transformation_orders = EmptyMap
    /\ parallel_groups = EmptyMap
    /\ connectors_data = <<>>

\* C15: with a mapping name that matches no mapping the constructor raises
\* right after the lookup, with no connector fetched and no graph, level,
\* group or enriched record computed; with a name that matches, the analysis
\* runs on the first mapping of that name.
C15_MissingMappingFailsFirst ==
    /\ MatchingMappings = {} =>
          /\ pc \in {"new", "checked", "raised"}
          /\ NothingComputed
    /\ (MatchingMappings # {} /\ pc \notin {"new"}) =>
          /\ pc # "raised"
          /\ mapping_exists
          /\ mapping_number = MinOf(MatchingMappings) - 1
          /\ pc \notin {"checked"} =>
                connectors = extract_mappings(workflow_data)[MinOf(MatchingMappings)].connector
          /\ pc \notin {"checked", "connectors"} =>
                instances = extract_mappings(workflow_data)[MinOf(MatchingMappings)].instance

\* C15 witness: the constructor has raised on a workflow that holds a mapping
\* with connectors, under another name.
C15_Witness ==
    /\ pc = "raised"
    /\ extract_mappings(workflow_data) # <<>>
    /\ Len(extract_mappings(workflow_data)[1].connector) = MaxFieldConnectors
    /\ NothingComputed

\* C16: process_mapping yields one enriched record per connector, in
\* connector order; the record's order is the exported level of the
\* connector's TO node, its parallel group is the group id of that node,
\* never the placeholder, and its execution level is order - 1 when
\* order > 0 and 0 otherwise.
C16_OneRecordPerConnector ==
    pc = "processed" =>
        /\ Len(connectors_data) = Len(connectors)
        /\ \A i \in DOMAIN connectors :
              LET record == connectors_data[i]
                  to_node == connectors[i].to_instance
              IN  /\ record.from_instance = connectors[i].from_instance
                  /\ record.to_instance = to_node
                  /\ record.to_field = connectors[i].to_field
                  /\ to_node \in Levelled
                  /\ record.transformation_order = transformation_orders[to_node]
                  /\ record.parallel_group = parallel_groups[to_node]
                  /\ record.parallel_group # unknown_group
                  /\ record.execution_level =
                        IF record.transformation_order > 0
                        THEN record.transformation_order - 1 ELSE 0

-----------------------------------------------------------------------------
(* Properties of trace_lineage *)

Returned == tpc = "done"

\* the (instance, field) pairs of the input: the traced field, the ends of
\* the connections and the fields of the transformations
FieldPairs ==
    {<<target_instance, target_field>>}
        \cup {<<connections[i].from_instance, connections[i].from_field>> : i \in DOMAIN connections}
        \cup {<<connections[i].to_instance, connections[i].to_field>> : i \in DOMAIN connections}
        \cup UNION {{<<n, transformations[n].fields[i].name>> :
                        i \in DOMAIN transformations[n].fields}
                    : n \in DOMAIN transformations}

ExpansionBound == (max_depth + 1) * Cardinality(FieldPairs)

\* C3: trace_lineage eventually empties its queue and returns, and never
\* expands more than (max_depth + 1) * (number of field pairs) work items.
C3_TraceTerminates ==
    /\ <>Returned
    /\ [](expansions <= ExpansionBound)

\* C3 witness: a trace that returned on connectors that form a cycle
\* (EXP.a -> FIL.a -> EXP.a) with an expression that names its own field,
\* after expanding items down to the depth limit.
C3_Witness ==
    /\ Returned
    /\ target_instance = EXP /\ target_field = fa
    /\ max_depth = MaxDepth
    /\ Contains(transformations[EXP].fields[1].expression, fa)
    /\ \E i, j \in DOMAIN connections :
          /\ connections[i] = Connection(FIL, fa, EXP, fa)
          /\ connections[j] = Connection(EXP, fa, FIL, fa)
    /\ expansions > MaxDepth + 1

TargetIsSource ==
    is_lineage_source(target_instance, trace_instances, transformations, connections)

\* the record that the trace emits for the source end of connection c, which
\* feeds the traced field directly
RecordOf(r, c) ==
    /\ r.source_table = Remove(Remove(c.from_instance, <<"Shortcut_to_">>), <<"SQ_">>)
    /\ r.source_column = c.from_field
    /\ r.transformation_path = <<c.from_instance, target_instance>>

\* C8: the record emitted for a source that feeds the traced field directly
\* has direct_source = TRUE and hop count 0.
C8_DirectSourceFlag ==
    Returned =>
        \A i \in DOMAIN connections, j \in DOMAIN lineage_records :
            (/\ connections[i].to_instance = target_instance
             /\ connections[i].to_field = target_field
             /\ is_lineage_source(connections[i].from_instance, trace_instances,
                                  transformations, connections)
             /\ RecordOf(lineage_records[j], connections[i]))
            => /\ lineage_records[j].direct_source
               /\ lineage_records[j].transformation_count = 0

TracedFieldUnfed ==
    ~\E i \in DOMAIN connections :
        /\ connections[i].to_instance = target_instance
        /\ connections[i].to_field = target_field

\* C9 as stated: for any declared target instance and any field of it that
\* no connector feeds, the trace returns the empty record list.
C9_UnfedTargetFieldEmpty ==
    (/\ Returned
     /\ target_instance \in declared_targets(trace_instances)
     /\ TracedFieldUnfed)
    => lineage_records = <<>>

\* C9 amended: for a declared target instance that does not pass the source
\* test and is not an Expression transformation, and any field of it that no
\* connector feeds, the trace returns the empty record list.
C9_UnfedPlainTargetFieldEmpty ==
    (/\ Returned
     /\ target_instance \in declared_targets(trace_instances)
     /\ ~TargetIsSource
     /\ ~IsExpression(transformations, target_instance)
     /\ TracedFieldUnfed)
    => lineage_records = <<>>

\* C9 witness: the trace of an unfed field of a declared target whose other
\* field has a connector from a source returned after its dead end.
C9_Witness ==
    /\ Returned
    /\ target_instance = TGT /\ target_field = fb
    /\ \E i \in DOMAIN connections : connections[i] = Connection(CUST, fa, TGT, fa)
    /\ expansions = 1
    /\ lineage_records = <<>>

-----------------------------------------------------------------------------
(* The loop body of trace_lineage, step by step *)

IsSource(instance) ==
    is_lineage_source(instance, trace_instances, transformations, connections)

\* C21: a step that changes the record list appends one record, built from
\* the dequeued work item, whose instance passes the source test; and a step
\* that dequeues an item whose instance passes the source test enqueues
\* nothing.
C21_SourceEndsBranch ==
    [][/\ lineage_records' # lineage_records =>
            /\ Looping
            /\ IsSource(Dequeued.instance)
            /\ lineage_records' =
                  Append(lineage_records,
                         make_record(transformations, target_instance, target_field, Dequeued))
       /\ (Looping /\ IsSource(Dequeued.instance)) => queue' = Tail(queue)]_vars

\* C21 witness: the trace returned a record for the source qualifier and
\* none for the declared source whose connector leads into it.
C21_Witness ==
    /\ Returned
    /\ \E i \in DOMAIN connections : connections[i] = Connection(CUST, fa, SQ_CUST, fa)
    /\ \E j \in DOMAIN lineage_records : lineage_records[j].transformation_path[1] = SQ_CUST
    /\ \A j \in DOMAIN lineage_records : lineage_records[j].transformation_path[1] # CUST

\* C22: a step that dequeues a work item of depth greater than max_depth only
\* drops it: the visited set, the record list and the number of items tested
\* and expanded stay as they are and the loop goes on; and every record has a
\* hop count of at most max_depth.
C22_DeepItemsDropped ==
    /\ [](\A j \in DOMAIN lineage_records :
             lineage_records[j].transformation_count <= max_depth)
    /\ [][(Looping /\ Dequeued.depth > max_depth) =>
             /\ queue' = Tail(queue)
             /\ tpc' = tpc
             /\ UNCHANGED <<visited, lineage_records, expansions>>]_vars

\* C22 witness: the declared source stands one hop beyond the depth limit,
\* behind the Filter and the Expression, and the trace returned no record
\* after testing the three items within the limit.
C22_Witness ==
    /\ Returned
    /\ target_instance = TGT /\ target_field = fa
    /\ max_depth = 2
    /\ connections = <<Connection(EXP, fa, TGT, fa), Connection(FIL, fa, EXP, fa),
                       Connection(CUST, fa, FIL, fa)>>
    /\ expansions >= 3
    /\ lineage_records = <<>>

\* C25: every work item of the queue has a path and a logic list as long as
\* its depth.  Every record is appended with the depth of the dequeued item
\* for hop count; its transformation path has hop count + 1 instances, from
\* the source instance to the traced target instance, its logic has hop count
\* parts, and direct_source is TRUE exactly when the hop count is 0, which is
\* exactly when the traced target instance passes the source test.
C25_PathLengthIsDepth ==
    /\ [](/\ \A i \in DOMAIN queue :
                /\ Len(queue[i].path) = queue[i].depth
                /\ Len(queue[i].logic_path) = queue[i].depth
          /\ \A j \in DOMAIN lineage_records :
                LET r == lineage_records[j]
                    source_instance == r.transformation_path[1]
                IN  /\ Len(r.transformation_path) = r.transformation_count + 1
                    /\ Len(r.transformation_logic) = r.transformation_count
                    /\ r.source_table =
                          Remove(Remove(source_instance, <<"Shortcut_to_">>), <<"SQ_">>)
                    /\ r.transformation_path[Len(r.transformation_path)] = target_instance
                    /\ r.direct_source <=> (r.transformation_count = 0)
                    /\ r.direct_source <=> TargetIsSource)
    /\ [][lineage_records' # lineage_records =>
             /\ Looping
             /\ Len(lineage_records') = Len(lineage_records) + 1
             /\ lineage_records'[Len(lineage_records')].transformation_count = Dequeued.depth
             /\ lineage_records'[Len(lineage_records')].transformation_path[1] = Dequeued.instance]_vars

\* C25 witness: a source reported over two hops, through a connector into the
\* target and through the Expression, next to nothing reported directly.
C25_Witness ==
    /\ Returned
    /\ ~TargetIsSource
    /\ \E j \in DOMAIN lineage_records :
          /\ lineage_records[j].transformation_path = <<CUST, EXP, TGT>>
          /\ lineage_records[j].transformation_count = 2
          /\ Len(lineage_records[j].transformation_logic) = 2
          /\ ~lineage_records[j].direct_source

\* C26: the depths of the work items in the queue do not decrease from head
\* to tail and the tail is at most 1 deeper than the head; the hop counts of
\* the records do not decrease along the record list.
C26_RecordsByHopCount ==
    /\ \A i, j \in DOMAIN queue : i < j => queue[i].depth <= queue[j].depth
    /\ queue # <<>> => queue[Len(queue)].depth <= Head(queue).depth + 1
    /\ \A i, j \in DOMAIN lineage_records :
          i < j => lineage_records[i].transformation_count
                      <= lineage_records[j].transformation_count

\* C26 witness: the connector of the Expression precedes the one of the
\* source qualifier, and the source behind the Expression, two hops away, is
\* reported after the source qualifier, one hop away.
C26_Witness ==
    /\ Returned
    /\ connections = <<Connection(EXP, fa, TGT, fa), Connection(SQ_CUST, fa, TGT, fa),
                       Connection(CUST, fa, EXP, fa)>>
    /\ Len(lineage_records) >= 2
    /\ lineage_records[1].transformation_path = <<SQ_CUST, TGT>>
    /\ lineage_records[2].transformation_path = <<CUST, EXP, TGT>>

\* the instance of the work item that a record was built from
SourceInstanceOf(r) == r.transformation_path[1]

\* C27: every work item that passes the visited test adds a new key to the
\* visited set, so the items tested and expanded are as many as the distinct
\* (instance, field, depth) keys; and no two records agree on source
\* instance, source field and hop count.
C27_TripleProcessedOnce ==
    /\ expansions = Cardinality(visited)
    /\ \A i, j \in DOMAIN lineage_records :
          i # j =>
              ~(/\ SourceInstanceOf(lineage_records[i]) = SourceInstanceOf(lineage_records[j])
                /\ lineage_records[i].source_column = lineage_records[j].source_column
                /\ lineage_records[i].transformation_count
                      = lineage_records[j].transformation_count)

\* C27 witness: CUST.a is enqueued twice at depth 2, by the connector into
\* EXP.a and by the expression of EXP.a that names the connector's field, and
\* reported once at hop count 2, after its report at hop count 1.
C27_Witness ==
    /\ Returned
    /\ target_instance = TGT /\ target_field = fa
    /\ connections = <<Connection(CUST, fa, TGT, fa), Connection(EXP, fa, TGT, fa),
                       Connection(CUST, fa, EXP, fa)>>
    /\ Contains(transformations[EXP].fields[1].expression, fa)
    /\ Cardinality({j \in DOMAIN lineage_records :
                       /\ SourceInstanceOf(lineage_records[j]) = CUST
                       /\ lineage_records[j].source_column = fa
                       /\ lineage_records[j].transformation_count = 2}) = 1
    /\ \E j \in DOMAIN lineage_records :
          /\ SourceInstanceOf(lineage_records[j]) = CUST
          /\ lineage_records[j].source_column = fa
          /\ lineage_records[j].transformation_count = 1

-----------------------------------------------------------------------------
(* The lineage graph across _calculate_transformation_order *)

\* C24: the step from the built graph to the returned orders leaves the node
\* set and the edge set of mapping_lineage_graph as they were.
C24_GraphUnchanged ==
    [][(pc = "graph" /\ pc' = "ordered") =>
          /\ Range(mapping_lineage_graph'.nodes) = Range(mapping_lineage_graph.nodes)
          /\ Range(mapping_lineage_graph'.edges) = Range(mapping_lineage_graph.edges)]_vars

\* C24 witness: the orders were returned for a graph with a cycle from which
\* the cycle breaker, run on a copy, takes an edge, and the graph is still
\* the one built from the instances and connectors.
C24_Witness ==
    /\ Ordered
    /\ \E n \in GraphNodes : Cyclic(ComponentOf(n)) /\ ~HasSelfLoop(ComponentOf(n))
    /\ \E g \in working_graphs(mapping_lineage_graph) : g # mapping_lineage_graph
    /\ mapping_lineage_graph = build_graph(instances, connectors)

-----------------------------------------------------------------------------
(* Groups and levels *)

\* C28: in every acyclic weakly-connected component two nodes of the same
\* level have the same parallel-group id, whichever order the partitioner
\* iterated its sets in: each level of the component is one group.
C28_OneGroupPerLevel ==
    [](Ordered =>
        LET components == weakly_connected_components(mapping_lineage_graph)
        IN  \A i \in DOMAIN components :
                ~Cyclic(components[i]) =>
                    \A a, b \in components[i] :
                        /\ a \in Levelled
                        /\ transformation_orders[a] = transformation_orders[b]
                              => parallel_groups[a] = parallel_groups[b])

\* C28 witness: a diamond, whose two middle nodes share level 2 and one
\* group, which holds nothing else.
C28_Witness ==
    /\ Ordered
    /\ \E a, b, c, d \in GraphNodes :
          /\ b # c
          /\ GraphEdges = {<<a, b>>, <<a, c>>, <<b, d>>, <<c, d>>}
          /\ transformation_orders[b] = 2
          /\ transformation_orders[c] = 2
          /\ GroupMembers(b) = {b, c}

-----------------------------------------------------------------------------
(* _identify_parallel_groups as a function of its arguments *)

GroupsReturned == gpc = "returned"

\* the level of the nodes of the group with counter i - 1
LevelOfGroup(i) == ipg_levels[CHOOSE n \in ipg_parallel_groups[i] : TRUE]

\* C23: for any two groups of one level, the first created before the second,
\* every node of the second has a directed path to or from a node of the
\* first; and a level that holds a single node is one group of that node.
C23_GreedyGroupsMaximal ==
    GroupsReturned =>
        /\ \A i, j \in DOMAIN ipg_parallel_groups :
              (i < j /\ LevelOfGroup(i) = LevelOfGroup(j)) =>
                  \A n \in ipg_parallel_groups[j] :
                      \E m \in ipg_parallel_groups[i] :
                          \/ has_path(ipg_subgraph, n, m)
                          \/ has_path(ipg_subgraph, m, n)
        /\ \A n \in DOMAIN ipg_levels :
              (\A m \in DOMAIN ipg_levels : ipg_levels[m] = ipg_levels[n] => m = n) =>
                  /\ \E i \in DOMAIN ipg_parallel_groups : ipg_parallel_groups[i] = {n}
                  /\ \A i \in DOMAIN ipg_parallel_groups :
                        n \in ipg_parallel_groups[i] => ipg_parallel_groups[i] = {n}

\* C23 witness: three nodes of one level, an edge between two of them; the
\* level came out as two groups, the second one holding the node that has a
\* path from the first group.
C23_Witness ==
    /\ GroupsReturned
    /\ ipg_subgraph.edges = <<<<1, 2>>>>
    /\ \A n \in DOMAIN ipg_levels : ipg_levels[n] = 0
    /\ Len(ipg_parallel_groups) = 2
    /\ ipg_parallel_groups[1] = {1, 3}
    /\ ipg_parallel_groups[2] = {2}

-----------------------------------------------------------------------------
(* The breadth-first order calculation *)

\* the connector graph has no cycle
ConnectorGraphAcyclic ==
    topological_sort(build_graph(<<>>, connectors)).raised = "none"

\* C29: on an acyclic connector graph the order returned by the
\* breadth-first calculation has order(v) >= order(u) + 1 for every
\* connector u->v.
C29_BreadthFirstEdgeOrder ==
    (pc = "extracted" /\ ConnectorGraphAcyclic) =>
        \A i \in DOMAIN connectors :
            transformation_orders[connectors[i].to_instance]
                >= transformation_orders[connectors[i].from_instance] + 1

-----------------------------------------------------------------------------
(* The lineage of a target field node *)

\* the position of a node in the returned lineage
PositionIn(node) == CHOOSE i \in DOMAIN lineage : lineage[i].node = node

\* the nodes of the returned lineage
LineageNodes == {lineage[i].node : i \in DOMAIN lineage}

\* C30: the lineage _trace_lineage returns holds each field node from which
\* the target is reachable exactly once, the target node is last, and for
\* every connector u->v with both ends in the list, u appears before v.
C30_SourceToTargetOrder ==
    lpc = "traced" =>
        /\ LineageNodes = {n \in Range(graph.nodes) : has_path(graph, n, target_node)}
                              \cup {target_node}
        /\ Len(lineage) = Cardinality(LineageNodes)
        /\ lineage[Len(lineage)].node = target_node
        /\ \A e \in Range(graph.edges) :
               (e[1] \in LineageNodes /\ e[2] \in LineageNodes)
                   => PositionIn(e[1]) < PositionIn(e[2])

====
